---- MODULE Spec2Model ----
(***************************************************************************)
(* Model of the padel court availability monitor (src/monitor.py).         *)
(*                                                                         *)
(* The polling loop of main() runs run_check once per cycle.  run_check    *)
(* walks watches x clubs x dates, fetches the availability of each         *)
(* (club, date) pair, filters it through the watch's time window, diffs it *)
(* against the entry of the state mapping, sends at most one notification  *)
(* and overwrites the entry.                                               *)
(*                                                                         *)
(* Time labels ("17:00") are modelled as the sequence of their characters, *)
(* a digit as its value and ':' as 10 (':' sorts after '9' in Python), so  *)
(* that the string comparison of slot_in_window is lexicographic here too. *)
(* Dates are day numbers, day 0 being a Monday.                            *)
(***************************************************************************)
EXTENDS Integers, Sequences, FiniteSets, TLC

VARIABLES
    cfg,        \* the configuration returned by load_config
    today,      \* datetime.now().date() as a day number
    state,      \* the in-memory state mapping: <<club, date>> -> list of labels
    file,       \* the contents of STATE_FILE (same shape as state)
    pc,         \* position of main(): "start", "exit", "loop", "check", "sleep"
    pos,        \* position of run_check in its watches x clubs x dates iteration
    sent,       \* send_notification calls of the current cycle, in order
    last,       \* observation of the most recent pair processed by run_check
    seen,       \* per key, the watch and raw result of its latest successful fetch, and
                \* dropped: the labels whose latest notification was not delivered
                \* and which every successful fetch of the key since has returned
    cyc,        \* observations of the current cycle
    prev,       \* cyc.coherent of the previous cycle
    firstCycle, \* no cycle has finished yet
    probe,      \* a (club, date, label) followed across cycles
    hist,       \* what happened to the probe in the current and the two previous cycles
    browsers,   \* the number of browsers that are open
    arg,        \* the arguments a helper function is applied to on its own
    res         \* <<its result>>, or <<>> before the call

vars ==
    <<cfg, today, state, file, pc, pos, sent, last, seen, cyc, prev, firstCycle, probe, hist,
      browsers, arg, res>>

----------------------------------------------------------------------------
(* Bounds *)

\* longest list of available labels the Availability Source returns
MaxSlots == 2

\* largest weeks_ahead upcoming_dates is applied to on its own
MaxWeeks == 3

\* latest day number upcoming_dates is applied on on its own
MaxDay == 13

\* the last day the process is followed to when days pass
LastDay == 2

----------------------------------------------------------------------------
(* Time labels *)

Colon == 10

T1700 == <<1, 7, Colon, 0, 0>>
T1800 == <<1, 8, Colon, 0, 0>>
T1830 == <<1, 8, Colon, 3, 0>>

\* the labels the Availability Source may report
Labels == {T1700, T1830}

Range(s) == {s[i] : i \in 1..Len(s)}

RECURSIVE SeqsUpTo(_, _)
SeqsUpTo(S, n) ==
    IF n = 0 THEN {<<>>}
    ELSE LET shorter == SeqsUpTo(S, n - 1)
         IN  shorter \cup {Append(l, x) : l \in {m \in shorter : Len(m) = n - 1}, x \in S}

\* Python's str <= str: lexicographic on characters, a proper prefix is smaller
RECURSIVE StrLeq(_, _)
StrLeq(a, b) ==
    IF a = <<>> THEN TRUE
    ELSE IF b = <<>> THEN FALSE
    ELSE IF a[1] < b[1] THEN TRUE
    ELSE IF a[1] > b[1] THEN FALSE
    ELSE StrLeq(Tail(a), Tail(b))

\* the lists result["available_slots"] may hold: the scraper returns
\* sorted(available_slots), in which a label may occur more than once
SourceLists ==
    {l \in SeqsUpTo(Labels, MaxSlots) : \A n \in 1..(Len(l) - 1) : StrLeq(l[n], l[n + 1])}

slot_in_window_open(slot_time, time_from, time_to) ==
    StrLeq(time_from, slot_time) /\ slot_time # time_from /\ StrLeq(slot_time, time_to)

slot_in_window_strict(slot_time, time_from, time_to) ==
    StrLeq(time_from, slot_time) /\ StrLeq(slot_time, time_to) /\ slot_time # time_to

slot_in_window(slot_time, time_from, time_to) ==
    StrLeq(time_from, slot_time) /\ StrLeq(slot_time, time_to)

----------------------------------------------------------------------------
(* Configuration *)

WEEKDAYS ==
    [n \in {"monday", "tuesday", "wednesday", "thursday", "friday", "saturday", "sunday"} |->
        CASE n = "monday" -> 0
          [] n = "tuesday" -> 1
          [] n = "wednesday" -> 2
          [] n = "thursday" -> 3
          [] n = "friday" -> 4
          [] n = "saturday" -> 5
          [] n = "sunday" -> 6]

\* str.lower() on the weekday spellings the configurations use
Lower(name) ==
    CASE name = "Tuesday" -> "tuesday"
      [] name = "Wednesday" -> "wednesday"
      [] OTHER -> name

\* the venue registry imported from scraper
CLUBS == {"padelcasa", "peakz"}

\* a mapping of the YAML file is a record together with the set of its keys: a
\* key that is not in fields is absent, whatever the record holds under it
Watch(weekday, time_from, time_to, clubs, weeks_ahead) ==
    [weekday |-> weekday, time_from |-> time_from, time_to |-> time_to,
     clubs |-> clubs, weeks_ahead |-> weeks_ahead,
     fields |-> {"weekday", "time_from", "time_to", "clubs", "weeks_ahead"}]

Config(watches) ==
    [ntfy_topic |-> "padel", watches |-> watches, fields |-> {"ntfy_topic", "watches"}]

\* the mapping without one of its keys
Without(mapping, key) == [mapping EXCEPT !.fields = @ \ {key}]

\* one watch, one club, two dates; 18:30 is outside the window
CfgDates == Config(<<Watch("tuesday", T1700, T1800, <<"padelcasa">>, 2)>>)

\* two watches with different windows on the same club and date
CfgOverlap ==
    Config(<<Watch("Tuesday", T1700, T1800, <<"padelcasa">>, 1),
             Watch("tuesday", T1800, T1830, <<"padelcasa">>, 1)>>)

\* one watch on two clubs; both labels lie on the bounds of the window
CfgClubs == Config(<<Watch("wednesday", T1700, T1830, <<"padelcasa", "peakz">>, 1)>>)

Configs == {CfgDates, CfgOverlap, CfgClubs}

\* one watch, one club, one date
CfgSingle == Config(<<Watch("tuesday", T1700, T1800, <<"padelcasa">>, 1)>>)

\* a complete watch followed by a watch that has no clubs key
CfgNoClubsField ==
    Config(<<Watch("tuesday", T1700, T1830, <<"padelcasa">>, 1),
             Without(Watch("tuesday", T1700, T1830, <<>>, 1), "clubs")>>)

CfgNoTopic == Without(CfgDates, "ntfy_topic")

CfgEmptyTopic == [CfgDates EXCEPT !.ntfy_topic = ""]

CfgNoWatches == Without(Config(<<>>), "watches")

CfgEmptyWatches == Config(<<>>)

CfgBadWeekday == Config(<<Watch("funday", T1700, T1800, <<"padelcasa">>, 1)>>)

CfgNoWeekday ==
    Config(<<Without(Watch("", T1700, T1800, <<"padelcasa">>, 1), "weekday")>>)

CfgUnknownClub ==
    Config(<<Watch("tuesday", T1700, T1800, <<"padelcasa", "nowhere">>, 1)>>)

\* the configuration files main() may be started with
ConfigFiles ==
    {CfgOverlap, CfgSingle, CfgNoClubsField, CfgNoTopic, CfgEmptyTopic, CfgNoWatches,
     CfgEmptyWatches, CfgBadWeekday, CfgNoWeekday, CfgUnknownClub}

\* the configuration files the progress of the polling loop is checked with
LiveConfigFiles == {CfgSingle, CfgNoClubsField, CfgNoTopic}

\* load_config raises ValueError
LoadConfigRaises(c) ==
    \/ ~("ntfy_topic" \in c.fields /\ c.ntfy_topic # "")
    \/ ~("watches" \in c.fields /\ c.watches # <<>>)
    \/ \E i \in 1..Len(c.watches) :
        LET watch == c.watches[i]
            weekday == Lower(IF "weekday" \in watch.fields THEN watch.weekday ELSE "")
            clubs == IF "clubs" \in watch.fields THEN watch.clubs ELSE <<>>
        IN  \/ weekday \notin DOMAIN WEEKDAYS
            \/ \E n \in 1..Len(clubs) : clubs[n] \notin CLUBS

\* watch["clubs"], watch["weekday"], watch["time_from"], watch["time_to"] in
\* run_check: a missing key raises KeyError
WatchRaises(watch) == ~({"clubs", "weekday", "time_from", "time_to"} \subseteq watch.fields)

\* watch.get("weeks_ahead", 4)
DefaultWeeksAhead == 4

WeeksAhead(watch) ==
    IF "weeks_ahead" \in watch.fields THEN watch.weeks_ahead ELSE DefaultWeeksAhead

\* the day the process runs on (a Monday)
StartDay == 0

----------------------------------------------------------------------------
(* Helpers of run_check *)

upcoming_dates_after_today(weekday_name, weeks_ahead, now) ==
    LET target == WEEKDAYS[Lower(weekday_name)]
        days_until == (target - (now % 7)) % 7
        first == now + days_until
        cand == [i \in 1..weeks_ahead |-> first + 7 * (i - 1)]
    IN  SelectSeq(cand, LAMBDA d : d > now)

upcoming_dates(weekday_name, weeks_ahead, now) ==
    LET target == WEEKDAYS[Lower(weekday_name)]
        days_until == (target - (now % 7)) % 7
        first == now + days_until
        cand == [i \in 1..weeks_ahead |-> first + 7 * (i - 1)]
    IN  SelectSeq(cand, LAMBDA d : d >= now)

StateKey(club, date) == <<club, date>>

\* the (watch, club, date) pairs of one cycle in the order run_check visits them;
\* i is the index of the date in the watch's date list
WatchPairs(w, now) ==
    LET watch == cfg.watches[w]
        dates == upcoming_dates(watch.weekday, WeeksAhead(watch), now)
        nd == Len(dates)
    IN  [k \in 1..(Len(watch.clubs) * nd) |->
            [w |-> w,
             club |-> watch.clubs[((k - 1) \div nd) + 1],
             i |-> (k - 1) % nd,
             date |-> dates[((k - 1) % nd) + 1]]]

RECURSIVE PlanFromReversed(_, _)
PlanFromReversed(w, now) ==
    IF w > Len(cfg.watches) \/ WatchRaises(cfg.watches[w]) THEN <<>>
    ELSE PlanFromReversed(w + 1, now) \o WatchPairs(w, now)

\* the pairs of the watches from w on, up to the first watch run_check raises on
RECURSIVE PlanFrom(_, _)
PlanFrom(w, now) ==
    IF w > Len(cfg.watches) \/ WatchRaises(cfg.watches[w]) THEN <<>>
    ELSE WatchPairs(w, now) \o PlanFrom(w + 1, now)

Plan == PlanFrom(1, today)

\* run_check reaches a watch it raises KeyError on
PlanRaises == \E w \in 1..Len(cfg.watches) : WatchRaises(cfg.watches[w])

\* seconds of time.sleep between two dates of one club
FetchSleep == 2

\* if i > 0: time.sleep(2), i being the index of the date in the club's date loop
SleepBefore(i) == IF i > 0 THEN FetchSleep ELSE 0

MatchingUnfiltered(raw, time_from, time_to) == raw

Matching(raw, time_from, time_to) ==
    SelectSeq(raw, LAMBDA s : slot_in_window(s, time_from, time_to))

PreviouslyAvailableAll(st, key) ==
    IF key \in DOMAIN st THEN Range(st[key]) ELSE Labels

\* set(state.get(state_key, []))
PreviouslyAvailable(st, key) ==
    IF key \in DOMAIN st THEN Range(st[key]) ELSE {}

NewlyAvailableFirst(matching, previously_available) ==
    LET new == SelectSeq(matching, LAMBDA s : s \notin previously_available)
    IN  IF new = <<>> THEN <<>> ELSE <<new[1]>>

NewlyAvailable(matching, previously_available) ==
    SelectSeq(matching, LAMBDA s : s \notin previously_available)

NotificationsPerSlot(w, club, date, newly_available) ==
    [n \in 1..Len(newly_available) |->
        [w |-> w, club |-> club, date |-> date, slots |-> <<newly_available[n]>>]]

\* the send_notification calls of one pair: one call listing every new label
Notifications(w, club, date, newly_available) ==
    IF newly_available # <<>>
    THEN <<[w |-> w, club |-> club, date |-> date, slots |-> newly_available]>>
    ELSE <<>>

StateSetUnion(st, key, matching) ==
    [k \in DOMAIN st \cup {key} |->
        IF k = key
        THEN (IF key \in DOMAIN st THEN st[key] ELSE <<>>) \o matching
        ELSE st[k]]

StateSetKeep(st, key, matching) ==
    [k \in DOMAIN st \cup {key} |->
        IF k = key /\ key \notin DOMAIN st THEN matching ELSE st[k]]

StateSetPruned(st, key, matching) ==
    [k \in {j \in DOMAIN st : j[2] >= key[2]} \cup {key} |->
        IF k = key THEN matching ELSE st[k]]

\* state[state_key] = matching
StateSet(st, key, matching) ==
    [k \in DOMAIN st \cup {key} |-> IF k = key THEN matching ELSE st[k]]

\* str(e) of the exceptions the Availability Source raises
FailureMessages == {"Timeout 30000ms exceeded", "Could not find any time slots on the page"}

\* "Timeout" in str(e)
HasTimeout(msg) == msg \in {"Timeout 30000ms exceeded"}

\* the level of the logging call of the except branch
FailureLevel(msg) == IF HasTimeout(msg) THEN "warning" ELSE "error"

----------------------------------------------------------------------------
(* Observation of a run: what the fetches returned and what was sent *)

\* HH:MM as minutes after midnight
Minutes(t) == (t[1] * 10 + t[2]) * 60 + t[4] * 10 + t[5]

\* t lies in [time_from, time_to] in chronological order
InWindow(t, time_from, time_to) ==
    Minutes(time_from) <= Minutes(t) /\ Minutes(t) <= Minutes(time_to)

\* kind: "ok" or "fail"; pos: the pair's position in Plan; raw: the fetched
\* available_slots; msg, level: the failure and the level it was logged at;
\* hadEntry, prevEntry: the state entry of the pair's key before the pair was
\* processed; sentBefore: the number of notifications sent before the pair;
\* earlier: the watch and the raw result of the latest successful fetch of the
\* same key earlier in this cycle, if any; slept: the seconds run_check slept
\* between the previous fetch and this one; browser: the number of browsers open
\* during the fetch; delivery: "delivered" or "failed" if a notification was
\* sent, attempts: the number of requests made for it; droppedBefore: the
\* dropped labels of the key before the pair
NoLast ==
    [kind |-> "none", pos |-> 0, raw |-> <<>>, msg |-> "", level |-> "",
     hadEntry |-> FALSE, prevEntry |-> <<>>, sentBefore |-> 0, earlier |-> <<>>,
     slept |-> 0, browser |-> 0, delivery |-> "none", attempts |-> 0, droppedBefore |-> {}]

\* coherent: so far every fetch of the cycle succeeded and the fetches of one key
\* returned one list; stable: so far every fetch of the cycle succeeded and
\* returned the list the latest fetch of its key had returned
\* tried: the positions of Plan whose fetch was attempted; failed: a fetch failed
\* launched: the browsers launched for the cycle; ended: "complete" after
\* save_state, "raised" after an exception reached main(); day: the day the
\* cycle started on
NoCycle ==
    [coherent |-> FALSE, stable |-> FALSE, tried |-> {}, failed |-> FALSE,
     launched |-> 0, ended |-> "", day |-> 0]

FreshCycle ==
    [coherent |-> TRUE, stable |-> TRUE, tried |-> {}, failed |-> FALSE,
     launched |-> 1, ended |-> "", day |-> 0]

PlanKeys == {StateKey(Plan[k].club, Plan[k].date) : k \in 1..Len(Plan)}

NoProbe == <<"", 0, <<>>>>

Probes == {<<k[1], k[2], s>> : k \in PlanKeys, s \in Labels}

NoHist ==
    [fetched |-> FALSE, failed |-> FALSE, raw |-> FALSE, inWindow |-> FALSE,
     notified |-> FALSE, atStart |-> FALSE]

\* the probe was fetched in the cycle and no fetch of its key failed
Fetched(h) == h.fetched /\ ~h.failed

\* the cycle observed the probe's label inside a watch's window, not recorded before
Opened(h) == Fetched(h) /\ h.inWindow /\ ~h.atStart

\* the cycle observed the probe's key without the probe's label
Gone(h) == Fetched(h) /\ ~h.raw

\* what a finished cycle is remembered by: whether the label opened (and was
\* notified), was gone, or neither
Remember(h) ==
    IF Opened(h)
    THEN [NoHist EXCEPT !.fetched = TRUE, !.raw = TRUE, !.inWindow = TRUE,
                        !.notified = h.notified]
    ELSE IF Gone(h) THEN [NoHist EXCEPT !.fetched = TRUE]
    ELSE NoHist

ProbeKey == <<probe[1], probe[2]>>

ProbeLabel == probe[3]

----------------------------------------------------------------------------
(* Initial state: main() up to the polling loop *)

\* load_state() with no state file
load_state == <<>>

\* no pure function is being applied
NoArg == [fn |-> "none"]

\* everything but the configuration, the position of main() and the probe
Fresh ==
    /\ today = StartDay
    /\ state = load_state
    /\ file = <<>>
    /\ pos = 0
    /\ sent = <<>>
    /\ last = NoLast
    /\ seen = <<>>
    /\ cyc = NoCycle
    /\ prev = FALSE
    /\ firstCycle = TRUE
    /\ hist = <<NoHist, NoHist, NoHist>>
    /\ browsers = 0
    /\ res = <<>>

\* load_config has returned a valid configuration
Start == Fresh /\ cfg \in Configs /\ pc = "loop" /\ arg = NoArg

Init == Start /\ probe = NoProbe

\* the same program, with one (club, date, label) followed across cycles
InitProbe == Start /\ probe \in Probes

\* main() is entered with some configuration file
InitFaults ==
    Fresh /\ cfg \in ConfigFiles /\ pc = "start" /\ probe = NoProbe /\ arg = NoArg

----------------------------------------------------------------------------
(* main() *)

\* cfg = load_config(config_path): a ValueError ends the process
LoadConfig ==
    /\ pc = "start"
    /\ pc' = IF LoadConfigRaises(cfg) THEN "exit" ELSE "loop"
    /\ UNCHANGED <<cfg, today, state, file, pos, sent, last, seen, cyc, prev, firstCycle,
                   probe, hist, browsers, arg, res>>

\* browser = p.chromium.launch(headless=True)
LaunchBrowser(n) == n + 1

browser_close_skipped(n) == n

\* finally: browser.close()
browser_close(n) == n - 1

\* scrape_availability(browser=browser): the fetch uses the browser it is handed
\* and opens none of its own
ScrapeBrowsers(n) == n

AfterRaiseExit == "exit"

\* except Exception: logger.exception(...), then main() goes on to the sleep
AfterRaise == "sleep"

RaisedStateReloaded(st, fl) == fl

\* what main()'s state refers to after run_check raised: the assignment did not
\* happen, the mapping is the one run_check was given and has written to
RaisedState(st, fl) == st

\* requests.post is called once; a requests.RequestException is logged, the
\* call returns None
send_notification(delivery) == [attempts |-> 1, raises |-> FALSE]

\* main(): a cycle starts, the browser is launched and run_check is entered
BeginCycle ==
    /\ pc = "loop"
    /\ pc' = "check"
    /\ pos' = 1
    /\ sent' = <<>>
    /\ last' = NoLast
    /\ seen' = [k \in DOMAIN seen |-> [seen[k] EXCEPT !.cur = FALSE]]
    /\ prev' = cyc.coherent
    /\ cyc' = [FreshCycle EXCEPT !.launched = LaunchBrowser(browsers) - browsers,
                                 !.day = today]
    /\ hist' = <<[NoHist EXCEPT !.atStart =
                     ProbeLabel \in PreviouslyAvailable(state, ProbeKey)],
                 Remember(hist[1]),
                 IF Opened(hist[2]) /\ Gone(hist[1]) THEN hist[2] ELSE NoHist>>
    /\ browsers' = LaunchBrowser(browsers)
    /\ UNCHANGED <<cfg, today, state, file, firstCycle, probe, arg, res>>

\* main(): sync_playwright() or the launch raises, no browser is open
LaunchFail ==
    /\ pc = "loop"
    /\ pc' = AfterRaise
    /\ sent' = <<>>
    /\ last' = NoLast
    /\ seen' = [k \in DOMAIN seen |-> [seen[k] EXCEPT !.cur = FALSE]]
    /\ prev' = cyc.coherent
    /\ cyc' = [NoCycle EXCEPT !.ended = "raised"]
    /\ firstCycle' = FALSE
    /\ UNCHANGED <<cfg, today, state, file, pos, probe, hist, browsers, arg, res>>

----------------------------------------------------------------------------
(* run_check *)

\* one iteration of the loop body whose fetch succeeds with available_slots = raw;
\* delivery is what becomes of the notification, if one is sent
ProcessPair(raw, delivery) ==
    LET p == Plan[pos]
        watch == cfg.watches[p.w]
        state_key == StateKey(p.club, p.date)
        matching == Matching(raw, watch.time_from, watch.time_to)
        previously_available == PreviouslyAvailable(state, state_key)
        newly_available == NewlyAvailable(matching, previously_available)
        calls == Notifications(p.w, p.club, p.date, newly_available)
        onProbe == state_key = ProbeKey
        droppedBefore == IF state_key \in DOMAIN seen THEN seen[state_key].dropped ELSE {}
    IN  /\ delivery = "failed" => calls # <<>>
        /\ sent' = sent \o calls
        /\ state' = StateSet(state, state_key, matching)
        /\ pos' = pos + 1
        /\ last' = [kind |-> "ok", pos |-> pos, raw |-> raw, msg |-> "", level |-> "info",
                    hadEntry |-> state_key \in DOMAIN state,
                    prevEntry |-> IF state_key \in DOMAIN state THEN state[state_key] ELSE <<>>,
                    sentBefore |-> Len(sent),
                    earlier |-> IF state_key \in DOMAIN seen /\ seen[state_key].cur
                                THEN <<seen[state_key].w, seen[state_key].raw>>
                                ELSE <<>>,
                    slept |-> SleepBefore(p.i),
                    browser |-> ScrapeBrowsers(browsers),
                    delivery |-> IF calls = <<>> THEN "none" ELSE delivery,
                    attempts |-> Len(calls) * send_notification(delivery).attempts,
                    droppedBefore |-> droppedBefore]
        /\ seen' = [k \in DOMAIN seen \cup {state_key} |->
                        IF k = state_key
                        THEN [w |-> p.w, raw |-> raw, cur |-> TRUE,
                              dropped |-> IF delivery = "failed"
                                          THEN (droppedBefore \cap Range(raw))
                                                    \cup Range(newly_available)
                                          ELSE (droppedBefore \cap Range(raw))
                                                    \ Range(newly_available)]
                        ELSE seen[k]]
        /\ cyc' = [cyc EXCEPT
                    !.coherent = @ /\ (state_key \in DOMAIN seen /\ seen[state_key].cur
                                            => seen[state_key].raw = raw),
                    !.stable = @ /\ state_key \in DOMAIN seen /\ seen[state_key].raw = raw,
                    !.tried = @ \cup {pos}]
        /\ hist' = IF onProbe /\ ~hist[1].failed
                   THEN [hist EXCEPT ![1] =
                        [@ EXCEPT
                            !.fetched = TRUE,
                            !.raw = @ \/ ProbeLabel \in Range(raw),
                            !.inWindow = @ \/ (ProbeLabel \in Range(raw)
                                /\ InWindow(ProbeLabel, watch.time_from, watch.time_to)),
                            !.notified = @ \/ \E n \in 1..Len(calls) :
                                                ProbeLabel \in Range(calls[n].slots)]]
                   ELSE hist

\* the fetch succeeds and the notification, if any, is delivered
FetchOk ==
    /\ pc = "check"
    /\ pos <= Len(Plan)
    /\ \E raw \in SourceLists : ProcessPair(raw, "delivered")
    /\ browsers' = ScrapeBrowsers(browsers)
    /\ UNCHANGED <<cfg, today, file, pc, prev, firstCycle, probe, arg, res>>

\* the fetch succeeds, a notification is sent and its delivery fails
FetchOkUndelivered ==
    /\ pc = "check"
    /\ pos <= Len(Plan)
    /\ \E raw \in SourceLists : ProcessPair(raw, "failed")
    /\ browsers' = ScrapeBrowsers(browsers)
    /\ UNCHANGED <<cfg, today, file, pc, prev, firstCycle, probe, arg, res>>

SkipPairAbort(msg) ==
    /\ pos' = Len(Plan) + 1
    /\ UNCHANGED <<state, sent>>

SkipPairClear(msg) ==
    /\ pos' = pos + 1
    /\ state' = StateSet(state, StateKey(Plan[pos].club, Plan[pos].date), <<>>)
    /\ UNCHANGED sent

\* the except branch: log and continue with the next pair
SkipPair(msg) ==
    /\ pos' = pos + 1
    /\ UNCHANGED <<state, sent>>

\* one iteration of the loop body whose fetch raises
FetchFail ==
    /\ pc = "check"
    /\ pos <= Len(Plan)
    /\ \E msg \in FailureMessages :
        /\ SkipPair(msg)
        /\ last' = [NoLast EXCEPT !.kind = "fail", !.pos = pos, !.msg = msg,
                        !.level = FailureLevel(msg), !.sentBefore = Len(sent),
                        !.slept = SleepBefore(Plan[pos].i),
                        !.browser = ScrapeBrowsers(browsers),
                        !.hadEntry = StateKey(Plan[pos].club, Plan[pos].date) \in DOMAIN state,
                        !.prevEntry = IF StateKey(Plan[pos].club, Plan[pos].date) \in DOMAIN state
                                      THEN state[StateKey(Plan[pos].club, Plan[pos].date)]
                                      ELSE <<>>]
    /\ cyc' = [cyc EXCEPT !.coherent = FALSE, !.stable = FALSE,
                          !.tried = @ \cup {pos}, !.failed = TRUE]
    /\ hist' = IF StateKey(Plan[pos].club, Plan[pos].date) = ProbeKey
               THEN [hist EXCEPT ![1] = [NoHist EXCEPT !.fetched = TRUE, !.failed = TRUE]]
               ELSE hist
    /\ browsers' = ScrapeBrowsers(browsers)
    /\ UNCHANGED <<cfg, today, file, pc, seen, prev, firstCycle, probe, arg, res>>

\* an exception leaves run_check: the browser is closed, save_state is not
\* reached, the except clause of main() logs it
Abort ==
    /\ pc' = AfterRaise
    /\ browsers' = browser_close(browsers)
    /\ state' = RaisedState(state, file)
    /\ cyc' = [cyc EXCEPT !.coherent = FALSE, !.stable = FALSE, !.ended = "raised"]
    /\ sent' = <<>>
    /\ last' = NoLast
    /\ firstCycle' = FALSE
    /\ UNCHANGED <<cfg, today, file, pos, seen, prev, probe, hist, arg, res>>

\* the fetch of a pair returns and the code between the fetch and the state
\* update raises (a result without "available_slots", or an exception of
\* send_notification that is not a requests.RequestException)
PairRaise ==
    /\ pc = "check"
    /\ pos <= Len(Plan)
    /\ Abort

\* run_check reaches a watch without one of the keys it subscripts: KeyError
WatchRaise ==
    /\ pc = "check"
    /\ pos > Len(Plan)
    /\ PlanRaises
    /\ Abort

\* run_check returns, the browser is closed and save_state writes the state file
EndCycle ==
    /\ pc = "check"
    /\ pos > Len(Plan)
    /\ ~PlanRaises
    /\ browsers' = browser_close(browsers)
    /\ file' = state
    /\ pc' = "sleep"
    /\ sent' = <<>>
    /\ last' = NoLast
    /\ firstCycle' = FALSE
    /\ cyc' = [cyc EXCEPT !.ended = "complete"]
    /\ UNCHANGED <<cfg, today, state, pos, seen, prev, probe, hist, arg, res>>

\* run_check returns, the browser is closed and save_state raises (mkdir or
\* open fails): the state file keeps its contents
SaveFail ==
    /\ pc = "check"
    /\ pos > Len(Plan)
    /\ ~PlanRaises
    /\ browsers' = browser_close(browsers)
    /\ pc' = AfterRaise
    /\ sent' = <<>>
    /\ last' = NoLast
    /\ firstCycle' = FALSE
    /\ cyc' = [cyc EXCEPT !.ended = "raised"]
    /\ UNCHANGED <<cfg, today, state, file, pos, seen, prev, probe, hist, arg, res>>

\* time.sleep(interval * 60)
Sleep ==
    /\ pc = "sleep"
    /\ pc' = "loop"
    /\ UNCHANGED <<cfg, today, state, file, pos, sent, last, seen, cyc, prev, firstCycle,
                   probe, hist, browsers, arg, res>>

\* the program with a source that answers or fails, every notification delivered
Next == BeginCycle \/ FetchOk \/ FetchFail \/ EndCycle \/ Sleep

Spec == Init /\ [][Next]_vars

SpecProbe == InitProbe /\ [][Next]_vars

\* the configurations the passing of days is followed with
DayConfigs == {CfgSingle, CfgOverlap}

InitDays == Fresh /\ cfg \in DayConfigs /\ pc = "loop" /\ probe = NoProbe /\ arg = NoArg

\* run_check is at the head of its loop over the watches, before the watch's
\* call of upcoming_dates
AtWatchStart ==
    /\ pc = "check"
    /\ pos <= Len(Plan)
    /\ IF pos = 1 THEN TRUE ELSE Plan[pos - 1].w # Plan[pos].w

\* datetime.now().date() moves on by a day; upcoming_dates reads it once per
\* watch, so the change takes effect between two cycles or between two watches
Midnight ==
    /\ IF pc = "sleep" THEN TRUE ELSE AtWatchStart
    /\ today < LastDay
    /\ today' = today + 1
    /\ last' = NoLast
    /\ UNCHANGED <<cfg, state, file, pc, pos, sent, seen, cyc, prev, firstCycle, probe, hist,
                   browsers, arg, res>>

\* the program over several days
NextDays == Next \/ Midnight

SpecDays == InitDays /\ [][NextDays]_vars

\* the program from its start, with every failure of its collaborators
NextFaults ==
    \/ LoadConfig
    \/ BeginCycle
    \/ LaunchFail
    \/ FetchOk
    \/ FetchOkUndelivered
    \/ FetchFail
    \/ PairRaise
    \/ WatchRaise
    \/ EndCycle
    \/ SaveFail
    \/ Sleep

SpecFaults == InitFaults /\ [][NextFaults]_vars

InitLive ==
    Fresh /\ cfg \in LiveConfigFiles /\ pc = "start" /\ probe = NoProbe /\ arg = NoArg

\* main() is one thread that always takes its next step: a fetch ends by its
\* result or its timeout, a sleep ends
SpecLive == InitLive /\ [][NextFaults]_vars /\ WF_vars(NextFaults)

----------------------------------------------------------------------------
(* The helper functions applied on their own *)

\* the weekday spellings upcoming_dates is applied to
WeekdayNames == DOMAIN WEEKDAYS \cup {"Tuesday", "Wednesday"}

Digits(a, b) == <<a, b>>

\* zero-padded HH:MM labels
PaddedLabels ==
    {h \o <<Colon>> \o m :
        h \in {Digits(0, 9), Digits(1, 0), Digits(1, 7), Digits(1, 9)},
        m \in {Digits(0, 0), Digits(0, 1), Digits(3, 0), Digits(5, 9)}}

DatesArgs ==
    {[fn |-> "upcoming_dates", weekday_name |-> n, weeks_ahead |-> k, today |-> d] :
        n \in WeekdayNames, k \in 1..MaxWeeks, d \in 0..MaxDay}

WindowArgs ==
    {[fn |-> "slot_in_window", slot_time |-> t, time_from |-> f, time_to |-> u] :
        t \in PaddedLabels, f \in PaddedLabels, u \in PaddedLabels}

\* result["available_slots"] in any order, a window and a state entry
DiffArgs ==
    {[fn |-> "diff", raw |-> l, time_from |-> T1700, time_to |-> u, entry |-> e] :
        l \in SeqsUpTo(Labels, MaxSlots), u \in {T1800, T1830}, e \in SeqsUpTo(Labels, 1)}

InitPure ==
    /\ Fresh
    /\ cfg = CfgSingle
    /\ pc = "pure"
    /\ probe = NoProbe
    /\ arg \in DatesArgs \cup WindowArgs \cup DiffArgs

Apply(result) ==
    /\ pc = "pure"
    /\ res = <<>>
    /\ res' = <<result>>
    /\ UNCHANGED <<cfg, today, state, file, pc, pos, sent, last, seen, cyc, prev, firstCycle,
                   probe, hist, browsers, arg>>

CallUpcomingDates ==
    /\ arg.fn = "upcoming_dates"
    /\ Apply(upcoming_dates(arg.weekday_name, arg.weeks_ahead, arg.today))

CallSlotInWindow ==
    /\ arg.fn = "slot_in_window"
    /\ Apply(slot_in_window(arg.slot_time, arg.time_from, arg.time_to))

\* the filter and the diff of one pair, lines 140-152 of run_check
CallDiff ==
    /\ arg.fn = "diff"
    /\ LET key == StateKey("padelcasa", 1)
           matching == Matching(arg.raw, arg.time_from, arg.time_to)
           previously_available == PreviouslyAvailable(key :> arg.entry, key)
       IN  Apply([matching |-> matching,
                  newly_available |-> NewlyAvailable(matching, previously_available)])

NextPure == CallUpcomingDates \/ CallSlotInWindow \/ CallDiff

SpecPure == InitPure /\ [][NextPure]_vars

----------------------------------------------------------------------------
(* Properties *)

\* the pair, the watch and the state key of the most recent pair processed
LastPair == Plan[last.pos]

LastWatch == cfg.watches[LastPair.w]

LastKey == StateKey(LastPair.club, LastPair.date)

\* the labels of a fetched list that lie in the watch's window, in the list's order
InWindowList(raw, watch) ==
    SelectSeq(raw, LAMBDA s : InWindow(s, watch.time_from, watch.time_to))

\* the notifications sent while the most recent pair was processed
SentByLast == SubSeq(sent, last.sentBefore + 1, Len(sent))

\* run_check has processed every pair and is about to return
Returning == pc = "check" /\ pos > Len(Plan)

\* C1: when a cycle in which every fetch succeeded is followed by a cycle in
\* which every fetch succeeds and returns the same list for each key, the second
\* cycle sends no notification.
C1_DiffIdempotence ==
    (Returning /\ prev /\ cyc.stable) => sent = <<>>

\* C2: after a successful fetch of a pair, the state entry of its key is exactly
\* the in-window labels of that fetch, whatever the entry held before.
C2_FullReplacement ==
    last.kind = "ok" =>
        /\ LastKey \in DOMAIN state
        /\ state[LastKey] = InWindowList(last.raw, LastWatch)

\* C2 witness: a label recorded before is dropped by a fetch that reports nothing new
C2_Witness ==
    /\ last.kind = "ok"
    /\ SentByLast = <<>>
    /\ \E s \in Range(last.prevEntry) : s \notin Range(state[LastKey])

\* C3: a label that opens in cycle k, is gone in cycle k+1 and is in a window
\* again in cycle k+2, each cycle fetching its key without failure, is listed in a
\* notification of cycle k and in a notification of cycle k+2.
C3_Reappearance ==
    (Returning /\ Opened(hist[3]) /\ Gone(hist[2]) /\ Fetched(hist[1]) /\ hist[1].inWindow)
        => (hist[3].notified /\ hist[1].notified)

\* C3 witness: the third cycle of such a run has returned and has notified the label
C3_Witness ==
    /\ Returning
    /\ Opened(hist[3]) /\ hist[3].notified
    /\ Gone(hist[2])
    /\ Fetched(hist[1]) /\ hist[1].inWindow /\ hist[1].notified

\* C4: when the state has no entry for the key of a successfully fetched pair,
\* one notification lists every in-window label of the fetch if there is any,
\* and none is sent otherwise.
C4_NoHistory ==
    (last.kind = "ok" /\ ~last.hadEntry) =>
        LET matching == InWindowList(last.raw, LastWatch)
        IN  IF matching # <<>>
            THEN Len(SentByLast) = 1 /\ SentByLast[1].slots = matching
            ELSE SentByLast = <<>>

\* C4 witness: a key without entry is fetched with two in-window labels
C4_Witness ==
    /\ last.kind = "ok"
    /\ ~last.hadEntry
    /\ Len(InWindowList(last.raw, LastWatch)) = 2
    /\ Len(SentByLast) = 1

\* C5 as stated: the first cycle of a process started without state file sends
\* no notification.
C5_FirstRunSilent ==
    firstCycle => sent = <<>>

\* C5 as amended: in the first cycle of a process started without state file,
\* every in-window label of every successful fetch is listed in a notification
\* of that cycle for its club and date.
C5_FirstRunReportsAll ==
    (firstCycle /\ last.kind = "ok") =>
        \A s \in Range(InWindowList(last.raw, LastWatch)) :
            \E n \in 1..Len(sent) :
                /\ sent[n].club = LastPair.club
                /\ sent[n].date = LastPair.date
                /\ s \in Range(sent[n].slots)

\* C5 witness: the first cycle has observed an in-window label and notified it
C5_Witness ==
    /\ firstCycle
    /\ last.kind = "ok"
    /\ InWindowList(last.raw, LastWatch) # <<>>
    /\ sent # <<>>

\* C6: after a failed fetch run_check goes on with the next pair, and a cycle
\* with a failed fetch has attempted the fetch of every pair when run_check
\* returns and when the driver sleeps.
C6_FailureIsolation ==
    /\ last.kind = "fail" => (pc = "check" /\ pos = last.pos + 1)
    /\ (cyc.failed /\ (Returning \/ pc = "sleep")) => cyc.tried = 1..Len(Plan)

\* C6 witness: the first fetch of a cycle failed, a later pair was evaluated and
\* run_check is returning
C6_Witness ==
    /\ Returning
    /\ cyc.failed
    /\ last.kind = "ok"
    /\ last.pos = Len(Plan)
    /\ StateKey(Plan[1].club, Plan[1].date) \notin DOMAIN state

\* C7: a failed fetch leaves the state entry of its key as it was (or absent),
\* sends nothing, and is logged as a warning if its message contains "Timeout"
\* and as an error otherwise.
C7_NoMutationOnFailure ==
    last.kind = "fail" =>
        /\ (LastKey \in DOMAIN state) = last.hadEntry
        /\ last.hadEntry => state[LastKey] = last.prevEntry
        /\ SentByLast = <<>>
        /\ last.level = (IF last.msg = "Timeout 30000ms exceeded" THEN "warning" ELSE "error")

\* C7 witness: a fetch fails for a key whose entry holds labels
C7_Witness ==
    /\ last.kind = "fail"
    /\ last.hadEntry
    /\ last.prevEntry # <<>>
    /\ last.level = "warning"

\* C8: processing a pair sends exactly one notification if the fetch succeeded
\* and some in-window label is missing from the previous entry, and none otherwise.
C8_NotificationCount ==
    last.kind \in {"ok", "fail"} =>
        LET opened == /\ last.kind = "ok"
                      /\ \E s \in Range(InWindowList(last.raw, LastWatch)) :
                            s \notin Range(last.prevEntry)
        IN  /\ Len(SentByLast) = (IF opened THEN 1 ELSE 0)
            /\ \A n \in 1..Len(SentByLast) :
                /\ SentByLast[n].w = LastPair.w
                /\ SentByLast[n].club = LastPair.club
                /\ SentByLast[n].date = LastPair.date

\* C8 witness: two labels are new for a pair and one notification is sent
C8_Witness ==
    /\ last.kind = "ok"
    /\ Cardinality(Range(InWindowList(last.raw, LastWatch)) \ Range(last.prevEntry)) = 2
    /\ Len(SentByLast) = 1

\* C9: the labels a notification lists are the fetched labels that lie in the
\* watch's window and are not in the entry read before.
C9_NotificationContent ==
    last.kind = "ok" =>
        \A n \in 1..Len(SentByLast) :
            Range(SentByLast[n].slots) =
                {s \in Range(last.raw) : InWindow(s, LastWatch.time_from, LastWatch.time_to)}
                    \ Range(last.prevEntry)

\* C9 witness: a notification lists a label on the upper bound of the window and
\* leaves out a fetched label
C9_Witness ==
    /\ last.kind = "ok"
    /\ Len(SentByLast) = 1
    /\ LastWatch.time_to \in Range(SentByLast[1].slots)
    /\ \E s \in Range(last.raw) : s \notin Range(SentByLast[1].slots)

\* C10: when a watch fetches a key that an earlier watch fetched in the same
\* cycle, the earlier watch comes first in the configuration, the entry the later
\* watch diffs against is the earlier watch's in-window list, and the entry
\* afterwards, and when run_check returns, is the later watch's in-window list.
C10_OverlappingWatches ==
    (last.kind = "ok" /\ last.earlier # <<>>) =>
        /\ last.earlier[1] <= LastPair.w
        /\ last.hadEntry
        /\ last.prevEntry = InWindowList(last.earlier[2], cfg.watches[last.earlier[1]])
        /\ state[LastKey] = InWindowList(last.raw, LastWatch)

\* C10 witness: run_check returns after the second of two watches with different
\* windows overwrote the first watch's non-empty entry with another list
C10_Witness ==
    /\ Returning
    /\ last.kind = "ok"
    /\ last.earlier # <<>>
    /\ last.earlier[1] < LastPair.w
    /\ last.prevEntry # <<>>
    /\ state[LastKey] # last.prevEntry

\* C11: within one watch every fetch but the watch's first one is preceded by a
\* sleep of at least 2 seconds, also across the boundary between two clubs and
\* after a failed fetch
C11_InterRequestSpacing ==
    (last.kind \in {"ok", "fail"} /\ last.pos > 1 /\ Plan[last.pos - 1].w = LastPair.w)
        => last.slept >= 2

\* the configurations C12 names: no non-empty ntfy_topic, no or no non-empty
\* watches, a weekday that is none of the seven names (in any letter case), a
\* club that is not in the registry, or a watch without a clubs key
NamedInvalid(c) ==
    \/ "ntfy_topic" \notin c.fields
    \/ c.ntfy_topic = ""
    \/ "watches" \notin c.fields
    \/ c.watches = <<>>
    \/ \E i \in 1..Len(c.watches) :
        \/ "weekday" \notin c.watches[i].fields
        \/ Lower(c.watches[i].weekday) \notin DOMAIN WEEKDAYS
        \/ "clubs" \notin c.watches[i].fields
        \/ \E n \in 1..Len(c.watches[i].clubs) : c.watches[i].clubs[n] \notin CLUBS

\* C12: with a configuration that has one of the named defects load_config raises
\* before the polling loop starts: main() never reaches the loop
C12_ConfigValidation == NamedInvalid(cfg) => pc \in {"start", "exit"}

\* C13: at the end of every cycle, a cycle that raised included, the state file
\* equals the in-memory state the next cycle starts from
C13_PersistEveryCycle == pc = "sleep" => file = state

\* C14: a cycle, whether it completes or raises, is left only for the sleep, the
\* sleep only for the next cycle, and every cycle that starts reaches the sleep
\* and is followed by another cycle
C14_LoopNeverStops ==
    /\ [][(pc \in {"loop", "check"} /\ pc' \notin {"loop", "check"}) => pc' = "sleep"]_vars
    /\ [][pc = "sleep" => pc' = "loop"]_vars
    /\ (pc \in {"loop", "check"}) ~> (pc = "sleep")
    /\ (pc = "sleep") ~> (pc = "loop")

\* a cycle has raised, the driver has slept and is about to start the next cycle
C14_Witness == pc = "loop" /\ cyc.ended = "raised"

C16_DeliveryFailureSwallowed ==
    /\ (last.kind = "ok" /\ last.delivery = "failed") =>
            /\ last.attempts = 1
            /\ pc = "check"
            /\ pos = last.pos + 1
            /\ state[LastKey] = InWindowList(last.raw, LastWatch)
    /\ last.kind = "ok" =>
            \A n \in 1..Len(SentByLast) :
                Range(SentByLast[n].slots) \cap last.droppedBefore = {}

\* C17: upcoming_dates with weeks_ahead = n >= 1 returns exactly n dates, each
\* 7 days after the one before, all on the requested weekday and none before
\* today; the first one is today if today is that weekday, else at most 6 days on
C17_DateExpansion ==
    (arg.fn = "upcoming_dates" /\ res # <<>>) =>
        LET dates == res[1]
            target == WEEKDAYS[Lower(arg.weekday_name)]
        IN  /\ Len(dates) = arg.weeks_ahead
            /\ \A i \in 1..Len(dates) : dates[i] % 7 = target /\ dates[i] >= arg.today
            /\ \A i \in 1..(Len(dates) - 1) : dates[i + 1] = dates[i] + 7
            /\ IF arg.today % 7 = target
               THEN dates[1] = arg.today
               ELSE dates[1] - arg.today \in 1..6

\* today is the requested weekday and more than one week is asked for
C17_Witness ==
    /\ arg.fn = "upcoming_dates"
    /\ res # <<>>
    /\ arg.weeks_ahead > 1
    /\ arg.today > 6
    /\ arg.today % 7 = WEEKDAYS[Lower(arg.weekday_name)]
    /\ res[1][1] = arg.today

\* C18: on zero-padded HH:MM labels slot_in_window is true exactly when the
\* label lies between the bounds in chronological order, both bounds included
C18_WindowFilter ==
    (arg.fn = "slot_in_window" /\ res # <<>>) =>
        (res[1] <=> InWindow(arg.slot_time, arg.time_from, arg.time_to))

\* a label on the upper bound is inside, the window spanning a change of the
\* hour's first digit
C18_Witness ==
    /\ arg.fn = "slot_in_window"
    /\ res = <<TRUE>>
    /\ arg.slot_time = arg.time_to
    /\ arg.time_from[1] < arg.time_to[1]

\* labels in nondecreasing chronological order
Ascending(l) == \A n \in 1..(Len(l) - 1) : Minutes(l[n]) <= Minutes(l[n + 1])

HoldsUpdates(st) ==
    \A k \in DOMAIN seen :
        seen[k].cur =>
            k \in DOMAIN st /\ st[k] = InWindowList(seen[k].raw, cfg.watches[seen[k].w])

\* C20: when a cycle is left by an exception, the in-memory state keeps the
\* updates of the pairs processed before it and the state file is not written;
\* the file changes only when a cycle completes, and then equals the state
C20_InPlaceMutation ==
    /\ []((pc = "sleep" /\ cyc.ended = "raised") => HoldsUpdates(state))
    /\ [][(pc = "check" /\ cyc'.ended = "raised") => (state' = state /\ file' = file)]_vars
    /\ [][file' # file => (cyc'.ended = "complete" /\ file' = state')]_vars

\* a cycle raised after it had processed a pair: the state holds the pair's
\* labels and the state file does not
C20_Witness ==
    /\ pc = "sleep"
    /\ cyc.ended = "raised"
    /\ \E k \in DOMAIN seen : seen[k].cur /\ state[k] # <<>> /\ k \notin DOMAIN file
    /\ HoldsUpdates(state)

\* some configured watch targets the key's club and the weekday of the key's
\* date, and has the label inside its window
InSomeWindow(k, label) ==
    \E w \in 1..Len(cfg.watches) :
        /\ k[1] \in Range(cfg.watches[w].clubs)
        /\ k[2] % 7 = WEEKDAYS[Lower(cfg.watches[w].weekday)]
        /\ InWindow(label, cfg.watches[w].time_from, cfg.watches[w].time_to)

\* C21: every label in the state, and in the state file, lies inside the window
\* of a configured watch that targets its key's club and the weekday of its date
C21_NoOutOfWindowLabel ==
    /\ \A k \in DOMAIN state : \A n \in 1..Len(state[k]) : InSomeWindow(k, state[k][n])
    /\ \A k \in DOMAIN file : \A n \in 1..Len(file[k]) : InSomeWindow(k, file[k][n])

\* a fetch returned a label outside every window together with one inside: the
\* entry written for the pair is not empty
C21_Witness ==
    /\ last.kind = "ok"
    /\ \E n \in 1..Len(last.raw) : ~InSomeWindow(LastKey, last.raw[n])
    /\ state[LastKey] # <<>>
    /\ file # <<>>

\* C22: no step removes a key from the state or from the state file; an entry
\* changes only when its own pair is fetched successfully, so the entry of a
\* date that has passed, or of a pair whose fetch fails, keeps its value
C22_KeysNeverShrink ==
    [][/\ DOMAIN state \subseteq DOMAIN state'
       /\ DOMAIN file \subseteq DOMAIN file'
       /\ \A k \in DOMAIN state :
            /\ state'[k] # state[k] =>
                    /\ pc = "check"
                    /\ last'.kind = "ok"
                    /\ k = StateKey(Plan[last'.pos].club, Plan[last'.pos].date)
            /\ k[2] < today => state'[k] = state[k]]_vars

\* a cycle that started after a date had passed has completed, and the state
\* and the state file still hold the labels recorded for that date
C22_Witness ==
    /\ pc = "sleep"
    /\ cyc.ended = "complete"
    /\ cyc.tried # {}
    /\ ~cyc.failed
    /\ \E k \in DOMAIN state :
        /\ k[2] < cyc.day
        /\ state[k] # <<>>
        /\ k \in DOMAIN file
        /\ file[k] = state[k]

====
